---------------------------- MODULE Spec2Model ----------------------------
(***************************************************************************)
(* Model of the Bigtable broker (brokerapi/brokers/bigtable/broker.go):    *)
(* BigTableBroker.Provision and BigTableBroker.Deprovision, together with  *)
(* the collaborators they touch (the persistence table of                  *)
(* ServiceInstanceDetails rows, the provider's set of instances, the name  *)
(* generator).                                                             *)
(*                                                                         *)
(* Go strings are modelled as sequences of one-character strings (one      *)
(* element per byte), Go map[string]string values as a record              *)
(* [isNil, keys, val], and Go int (64 bit) values as sign and magnitude    *)
(* over four 16-bit limbs, so that the conversion int32(numNodes) keeps    *)
(* its real width.                                                         *)
(***************************************************************************)
EXTENDS Integers, Sequences, FiniteSets, TLC

(***************************************************************************)
(* Bounds of the model.                                                    *)
(***************************************************************************)
\* number of request-handling goroutines the framework runs side by side
NumSlots == 2
\* calls started in one behaviour of Spec (one call in flight at a time)
MaxCalls == 2
\* calls started in one behaviour of SpecConc (calls interleave)
MaxConcCalls == 4

Slots == 1..NumSlots

(***************************************************************************)
(* Strings.                                                                *)
(***************************************************************************)
Rep(c, n) == [i \in 1..n |-> c]

Prefix(s, n) == [i \in 1..n |-> s[i]]

EmptyString == << >>

\* the platform's instance ids
InstanceIds == {<<"i", "d", "-", "1">>, <<"i", "d", "-", "2">>}

\* the length limit of line 84 and the suffix of lines 85 and 87
ClusterNameLimit == 20
ClusterSuffix == <<"-", "c", "l", "u", "s", "t", "e", "r">>

\* the default zone of line 98
DefaultZone == <<"u", "s", "-", "e", "a", "s", "t", "1", "-", "b">>

(***************************************************************************)
(* Go maps: params and planDetails (map[string]string).  A map is          *)
(* [isNil, keys, val]: keys is the set of keys present and val gives the   *)
(* value of each key of MapKeys (the empty string for an absent key).      *)
(***************************************************************************)
MapKeys == {"name", "cluster_id", "zone", "display_name", "num_nodes", "storage_type"}

NoValues == [k \in MapKeys |-> EmptyString]

NilMap == [isNil |-> TRUE, keys |-> {}, val |-> NoValues]
EmptyMap == [isNil |-> FALSE, keys |-> {}, val |-> NoValues]

\* v, ok := mp[k]
Has(mp, k) == k \in mp.keys
\* mp[k]: the zero value "" when the key is absent (also on a nil map)
Get(mp, k) == IF Has(mp, k) THEN mp.val[k] ELSE EmptyString
\* mp[k] = v on a non-nil map
Put(mp, k, v) ==
    [isNil |-> FALSE, keys |-> mp.keys \cup {k}, val |-> [mp.val EXCEPT ![k] = v]]

(***************************************************************************)
(* Bytes and UTF-8.  A printable byte below 0x80 is a one-character        *)
(* string; tab, newline, form feed and carriage return are the strings     *)
(* "\t", "\n", "\f" and "\r"; every other byte below 0x20 and every byte   *)
(* from 0x80 on is written as its two hexadecimal digits.                  *)
(***************************************************************************)
\* the bytes 0x00 to 0x1F, in order
ControlByteTokens ==
    <<"00", "01", "02", "03", "04", "05", "06", "07",
      "08", "\t", "\n", "0B", "\f", "\r", "0E", "0F",
      "10", "11", "12", "13", "14", "15", "16", "17",
      "18", "19", "1A", "1B", "1C", "1D", "1E", "1F">>

\* the bytes 0x80 to 0xFF, in order
HighByteTokens ==
    <<"80", "81", "82", "83", "84", "85", "86", "87",
      "88", "89", "8A", "8B", "8C", "8D", "8E", "8F",
      "90", "91", "92", "93", "94", "95", "96", "97",
      "98", "99", "9A", "9B", "9C", "9D", "9E", "9F",
      "A0", "A1", "A2", "A3", "A4", "A5", "A6", "A7",
      "A8", "A9", "AA", "AB", "AC", "AD", "AE", "AF",
      "B0", "B1", "B2", "B3", "B4", "B5", "B6", "B7",
      "B8", "B9", "BA", "BB", "BC", "BD", "BE", "BF",
      "C0", "C1", "C2", "C3", "C4", "C5", "C6", "C7",
      "C8", "C9", "CA", "CB", "CC", "CD", "CE", "CF",
      "D0", "D1", "D2", "D3", "D4", "D5", "D6", "D7",
      "D8", "D9", "DA", "DB", "DC", "DD", "DE", "DF",
      "E0", "E1", "E2", "E3", "E4", "E5", "E6", "E7",
      "E8", "E9", "EA", "EB", "EC", "ED", "EE", "EF",
      "F0", "F1", "F2", "F3", "F4", "F5", "F6", "F7",
      "F8", "F9", "FA", "FB", "FC", "FD", "FE", "FF">>

ControlBytes == {ControlByteTokens[i] : i \in 1..Len(ControlByteTokens)}
HighBytes == {HighByteTokens[i] : i \in 1..Len(HighByteTokens)}

Backspace == "08"

\* the value of each byte of ControlBytes and HighBytes
ByteValues ==
    [b \in ControlBytes \cup HighBytes |->
        IF b \in ControlBytes
        THEN (CHOOSE i \in 1..Len(ControlByteTokens) : ControlByteTokens[i] = b) - 1
        ELSE Len(HighByteTokens)
             + (CHOOSE i \in 1..Len(HighByteTokens) : HighByteTokens[i] = b) - 1]

ByteValue(b) == ByteValues[b]

EAcute == <<"C3", "A9">>
EGrave == <<"C3", "A8">>
LineSeparator == <<"E2", "80", "A8">>
ParagraphSeparator == <<"E2", "80", "A9">>
ReplacementChar == <<"EF", "BF", "BD">>

IsPrefix(t, s) == Len(t) <= Len(s) /\ SubSeq(s, 1, Len(t)) = t

Drop(s, n) == SubSeq(s, n + 1, Len(s))

\* s has an i-th byte, and it lies between the bytes lo and hi of HighBytes
InRange(s, i, lo, hi) ==
    /\ i <= Len(s)
    /\ s[i] \in HighBytes
    /\ ByteValue(lo) <= ByteValue(s[i])
    /\ ByteValue(s[i]) <= ByteValue(hi)

\* the i-th byte of s is a continuation byte
Continuation(s, i) == InRange(s, i, "80", "BF")

\* the size utf8.DecodeRune reports at the head of the non-empty s, 0 for
\* invalid UTF-8 (where it reports RuneError with size 1): a lead byte C2
\* to DF takes one continuation byte, E0 to EF two and F0 to F4 three; the
\* second byte is narrowed after E0, ED, F0 and F4 (no overlong form, no
\* surrogate, nothing above U+10FFFF)
RuneSize(s) ==
    LET b == Head(s)
    IN  IF b \notin HighBytes THEN 1
        ELSE IF InRange(s, 1, "C2", "DF")
             THEN IF Continuation(s, 2) THEN 2 ELSE 0
        ELSE IF InRange(s, 1, "E0", "EF")
             THEN IF /\ InRange(s, 2, IF b = "E0" THEN "A0" ELSE "80",
                                      IF b = "ED" THEN "9F" ELSE "BF")
                     /\ Continuation(s, 3)
                  THEN 3 ELSE 0
        ELSE IF InRange(s, 1, "F0", "F4")
             THEN IF /\ InRange(s, 2, IF b = "F0" THEN "90" ELSE "80",
                                      IF b = "F4" THEN "8F" ELSE "BF")
                     /\ Continuation(s, 3)
                     /\ Continuation(s, 4)
                  THEN 4 ELSE 0
        ELSE 0

\* invalid UTF-8 coerced to U+FFFD, rune by rune
RECURSIVE CoerceString(_)
CoerceString(s) ==
    IF s = << >> THEN << >>
    ELSE LET n == RuneSize(s)
         IN  IF n = 0 THEN ReplacementChar \o CoerceString(Tail(s))
             ELSE SubSeq(s, 1, n) \o CoerceString(Drop(s, n))

\* the string json.Unmarshal stores for a JSON string: the bytes as they
\* are when all are below 0x80, otherwise with invalid UTF-8 coerced to
\* U+FFFD
SanitizeString(s) ==
    IF \A i \in 1..Len(s) : s[i] \notin HighBytes THEN s ELSE CoerceString(s)

(***************************************************************************)
(* JSON payloads (details.RawParameters, plan.Features) and                *)
(* json.Unmarshal(payload, &map[string]string).                            *)
(*   kind "empty"      zero bytes                                          *)
(*   kind "malformed"  bytes that are not JSON                             *)
(*   kind "null"       the JSON literal null                               *)
(*   kind "nonobject"  a JSON value that is no object (5, [1], "x")        *)
(*   kind "object"     a JSON object: keys and val hold its string-valued  *)
(*                     members, nullKeys the members whose value is null,  *)
(*                     badKeys the members whose value is a number, a      *)
(*                     boolean, an array or an object                      *)
(***************************************************************************)
\* a JSON object with the string-valued members of the record f, the null
\* members nullKeys and the other members badKeys
Object(f, nullKeys, badKeys) ==
    [kind |-> "object", keys |-> DOMAIN f,
     val |-> [k \in MapKeys |-> IF k \in DOMAIN f THEN f[k] ELSE EmptyString],
     nullKeys |-> nullKeys, badKeys |-> badKeys]

\* a payload that is no object, or the object without members
Bare(kind) ==
    [kind |-> kind, keys |-> {}, val |-> NoValues, nullKeys |-> {}, badKeys |-> {}]

\* a JSON object of strings
Payload(kind, f) == [Object(f, {}, {}) EXCEPT !.kind = kind]

\* len(payload) = 0
IsEmptyPayload(p) == p.kind = "empty"

\* json.Unmarshal into a nil map[string]string: the error and the map left
\* in the target.  A null member is stored with the zero value and is no
\* error; a member of another type is stored with the zero value, decoding
\* goes on and the type error is returned at the end.
Unmarshal(p) ==
    CASE p.kind = "object" ->
            [err |-> p.badKeys # {},
             mp |-> [isNil |-> FALSE,
                     keys |-> p.keys \cup p.nullKeys \cup p.badKeys,
                     val |-> [k \in MapKeys |->
                                 IF k \in p.keys THEN SanitizeString(p.val[k])
                                 ELSE EmptyString]]]
      [] p.kind = "null" ->
            [err |-> FALSE, mp |-> NilMap]
      [] OTHER ->
            [err |-> TRUE, mp |-> NilMap]

(***************************************************************************)
(* json.Marshal(InstanceInformation{InstanceId: s}) and its decoding.      *)
(* Marshal writes {"instance_id":"<s escaped>"}: the quote and the         *)
(* backslash are escaped with a backslash, newline, carriage return and    *)
(* tab as \n, \r and \t, any other byte below 0x20 and < > & as \u00XX,    *)
(* U+2028 and U+2029 as their \u escapes, invalid UTF-8 as the escape of   *)
(* U+FFFD.                                                                 *)
(* The escape of the backspace and of the form feed depends on the         *)
(* toolchain that built the broker: encoding/json writes \u0008 and \u000c *)
(* up to Go 1.21, and \b and \f from Go 1.22 on.                           *)
(***************************************************************************)
OldToolchain == "go1.21"
NewToolchain == "go1.22"
Toolchains == {OldToolchain, NewToolchain}

HexDigits ==
    <<"0", "1", "2", "3", "4", "5", "6", "7", "8", "9", "a", "b", "c", "d", "e", "f">>

UnicodeEscape(a, b, c, d) == <<"\\", "u", a, b, c, d>>

\* \u00XX for the byte of value v
ByteEscape(v) ==
    UnicodeEscape("0", "0", HexDigits[(v \div Len(HexDigits)) + 1],
                            HexDigits[(v % Len(HexDigits)) + 1])

HtmlEscapes ==
    [c \in {"<", ">", "&"} |->
        CASE c = "<" -> UnicodeEscape("0", "0", "3", "c")
          [] c = ">" -> UnicodeEscape("0", "0", "3", "e")
          [] c = "&" -> UnicodeEscape("0", "0", "2", "6")]

\* the escape of one byte below 0x80
EscapeChar(c, toolchain) ==
    IF c \in {"\"", "\\"} THEN <<"\\", c>>
    ELSE IF c = "\n" THEN <<"\\", "n">>
    ELSE IF c = "\r" THEN <<"\\", "r">>
    ELSE IF c = "\t" THEN <<"\\", "t">>
    ELSE IF c = Backspace /\ toolchain = NewToolchain THEN <<"\\", "b">>
    ELSE IF c = "\f" /\ toolchain = NewToolchain THEN <<"\\", "f">>
    ELSE IF c \in ControlBytes THEN ByteEscape(ByteValue(c))
    ELSE IF c \in DOMAIN HtmlEscapes THEN HtmlEscapes[c]
    ELSE <<c>>

RECURSIVE EscapeString(_, _)
EscapeString(s, toolchain) ==
    IF s = << >> THEN << >>
    ELSE IF Head(s) \notin HighBytes
         THEN EscapeChar(Head(s), toolchain) \o EscapeString(Tail(s), toolchain)
    ELSE LET n == RuneSize(s)
         IN  IF n = 0
             THEN UnicodeEscape("f", "f", "f", "d") \o EscapeString(Tail(s), toolchain)
             ELSE IF IsPrefix(LineSeparator, s)
             THEN UnicodeEscape("2", "0", "2", "8") \o EscapeString(Drop(s, n), toolchain)
             ELSE IF IsPrefix(ParagraphSeparator, s)
             THEN UnicodeEscape("2", "0", "2", "9") \o EscapeString(Drop(s, n), toolchain)
             ELSE SubSeq(s, 1, n) \o EscapeString(Drop(s, n), toolchain)

InstanceInfoOpen ==
    <<"{", "\"", "i", "n", "s", "t", "a", "n", "c", "e", "_", "i", "d", "\"", ":", "\"">>
InstanceInfoClose == <<"\"", "}">>

\* a Marshal that writes the string as it is, without escaping
MarshalUnescaped(instanceId, toolchain) ==
    InstanceInfoOpen \o instanceId \o InstanceInfoClose

\* json.Marshal(ii), lines 122-126
MarshalInstanceInformation(instanceId, toolchain) ==
    InstanceInfoOpen \o EscapeString(instanceId, toolchain) \o InstanceInfoClose

\* the value of a hexadecimal digit, 16 for any other character
HexValue(h) ==
    IF \E i \in 1..Len(HexDigits) : HexDigits[i] = h
    THEN (CHOOSE i \in 1..Len(HexDigits) : HexDigits[i] = h) - 1
    ELSE Len(HexDigits)

\* the bytes a JSON reader yields for the escape \uXXXX
UnicodeDecode(code) ==
    CASE code = <<"0", "0", "3", "c">> -> <<"<">>
      [] code = <<"0", "0", "3", "e">> -> <<">">>
      [] code = <<"0", "0", "2", "6">> -> <<"&">>
      [] code = <<"2", "0", "2", "8">> -> LineSeparator
      [] code = <<"2", "0", "2", "9">> -> ParagraphSeparator
      [] code = <<"f", "f", "f", "d">> -> ReplacementChar
      [] /\ code[1] = "0" /\ code[2] = "0" /\ code[3] \in {"0", "1"}
         /\ HexValue(code[4]) < Len(HexDigits)
            -> <<ControlByteTokens[HexValue(code[3]) * Len(HexDigits)
                                   + HexValue(code[4]) + 1]>>
      [] OTHER -> <<"?">>

\* the decoding of a JSON string body (the inverse a JSON reader applies)
RECURSIVE UnescapeString(_)
UnescapeString(s) ==
    IF s = << >> THEN << >>
    ELSE IF Head(s) # "\\" THEN <<Head(s)>> \o UnescapeString(Tail(s))
    ELSE IF Len(s) >= 6 /\ s[2] = "u"
         THEN UnicodeDecode(SubSeq(s, 3, 6)) \o UnescapeString(Drop(s, 6))
    ELSE IF Len(s) >= 2
         THEN (CASE s[2] = "n" -> <<"\n">>
                 [] s[2] = "r" -> <<"\r">>
                 [] s[2] = "t" -> <<"\t">>
                 [] s[2] = "b" -> <<Backspace>>
                 [] s[2] = "f" -> <<"\f">>
                 [] OTHER -> <<s[2]>>)
              \o UnescapeString(Drop(s, 2))
    ELSE <<"?">>

\* index of the first unescaped quote of s at or after i, 0 when there is none
RECURSIVE ClosingQuote(_, _)
ClosingQuote(s, i) ==
    IF i > Len(s) THEN 0
    ELSE IF s[i] = "\"" THEN i
    ELSE IF s[i] = "\\" THEN ClosingQuote(s, i + 2)
    ELSE ClosingQuote(s, i + 1)

\* decoding of an object with the one member instance_id: ok and the member
DecodeInstanceInformation(text) ==
    LET n == Len(InstanceInfoOpen)
        q == ClosingQuote(text, n + 1)
    IN  IF Len(text) >= n + 2
           /\ SubSeq(text, 1, n) = InstanceInfoOpen
           /\ q # 0
           /\ SubSeq(text, q, Len(text)) = InstanceInfoClose
        THEN [ok |-> TRUE, instance_id |-> UnescapeString(SubSeq(text, n + 1, q - 1))]
        ELSE [ok |-> FALSE, instance_id |-> << >>]

(***************************************************************************)
(* Go int (64 bit) as [neg, mag]: mag is the magnitude as four limbs of    *)
(* 16 bits, least significant first.  strconv.Atoi and int32(x).           *)
(***************************************************************************)
LimbBase == 256 * 256
HalfBase == LimbBase \div 2

ZeroMag == <<0, 0, 0, 0>>

Digits == {"0", "1", "2", "3", "4", "5", "6", "7", "8", "9"}

DigitVal(c) ==
    CASE c = "0" -> 0 [] c = "1" -> 1 [] c = "2" -> 2 [] c = "3" -> 3
      [] c = "4" -> 4 [] c = "5" -> 5 [] c = "6" -> 6 [] c = "7" -> 7
      [] c = "8" -> 8 [] c = "9" -> 9

\* acc.mag * 10 + d; over records a carry out of the fourth limb
MulAdd(acc, d) ==
    LET t1 == acc.mag[1] * 10 + d
        t2 == acc.mag[2] * 10 + (t1 \div LimbBase)
        t3 == acc.mag[3] * 10 + (t2 \div LimbBase)
        t4 == acc.mag[4] * 10 + (t3 \div LimbBase)
    IN  [mag |-> <<t1 % LimbBase, t2 % LimbBase, t3 % LimbBase, t4 % LimbBase>>,
         over |-> acc.over \/ (t4 \div LimbBase) > 0]

RECURSIVE ParseDigits(_, _)
ParseDigits(s, acc) ==
    IF s = << >> \/ acc.over THEN acc
    ELSE ParseDigits(Tail(s), MulAdd(acc, DigitVal(Head(s))))

\* strconv.Atoi(s): an optional sign, then one or more decimal digits; a
\* value outside [-2^63, 2^63 - 1] is a range error
Atoi(s) ==
    LET signed == s # << >> /\ Head(s) \in {"+", "-"}
        neg == s # << >> /\ Head(s) = "-"
        body == IF signed THEN Tail(s) ELSE s
        syntaxOk == body # << >> /\ \A i \in 1..Len(body) : body[i] \in Digits
        r == ParseDigits(body, [mag |-> ZeroMag, over |-> FALSE])
        inRange == ~r.over
                   /\ (r.mag[4] < HalfBase
                       \/ (neg /\ r.mag = <<0, 0, 0, HalfBase>>))
    IN  IF syntaxOk /\ inRange
        THEN [err |-> FALSE, val |-> [neg |-> neg /\ r.mag # ZeroMag, mag |-> r.mag]]
        ELSE [err |-> TRUE, val |-> [neg |-> FALSE, mag |-> ZeroMag]]

\* the signed 32-bit value whose two's complement halves are hi and lo
Signed32(hi, lo) ==
    IF hi >= HalfBase THEN (hi - LimbBase) * LimbBase + lo ELSE hi * LimbBase + lo

\* int32(x): the low 32 bits of x's two's complement representation
ToInt32(x) ==
    LET lo == x.mag[1]
        hi == x.mag[2]
        borrow == IF lo = 0 THEN 0 ELSE 1
    IN  IF ~x.neg THEN Signed32(hi, lo)
        ELSE Signed32((2 * LimbBase - hi - borrow) % LimbBase, (LimbBase - lo) % LimbBase)

(***************************************************************************)
(* The storage-type table, lines 48-51.  googlebigtable.SSD is 0 (the zero *)
(* value of StorageType) and googlebigtable.HDD is 1.                      *)
(***************************************************************************)
SSD == 0
HDD == 1
SsdKey == <<"S", "S", "D">>
HddKey == <<"H", "D", "D">>

\* a table lookup that falls back to HDD
StorageTypesDefaultHdd(key) == IF key = SsdKey THEN SSD ELSE HDD

\* StorageTypes[key]: the zero value for a key the table does not hold
StorageTypes(key) ==
    IF key = SsdKey THEN SSD
    ELSE IF key = HddKey THEN HDD
    ELSE 0

(***************************************************************************)
(* Records of the broker.                                                  *)
(***************************************************************************)
\* models.ServiceInstanceDetails{}
EmptyDetails ==
    [Name |-> EmptyString, Url |-> EmptyString, Location |-> EmptyString,
     OtherDetails |-> EmptyString]

\* googlebigtable.InstanceConf{}
NoConf ==
    [InstanceId |-> EmptyString, ClusterId |-> EmptyString, NumNodes |-> 0,
     StorageType |-> 0, Zone |-> EmptyString, DisplayName |-> EmptyString]

ZeroInt == [neg |-> FALSE, mag |-> ZeroMag]

\* the names name_generator.Basic.InstanceNameWithSeparator("-") hands out
GeneratedNames == {<<"p", "c", "f", "-", "1">>, <<"p", "c", "f", "-", "2">>}

(***************************************************************************)
(* Provision, lines 55-115: the resolution of the create request.          *)
(***************************************************************************)
\* lines 83-91
ClusterId(params) ==
    LET name == Get(params, "name")
        derived == IF Len(name) > ClusterNameLimit
                   THEN Prefix(name, ClusterNameLimit) \o ClusterSuffix
                   ELSE name \o ClusterSuffix
    IN  IF Has(params, "cluster_id") THEN Get(params, "cluster_id") ELSE derived

\* lines 98-101
Zone(params) == IF Has(params, "zone") THEN Get(params, "zone") ELSE DefaultZone

\* lines 103-106
DisplayName(params) ==
    IF Has(params, "display_name") THEN Get(params, "display_name")
    ELSE Get(params, "name")

\* lines 108-115
InstanceConf(params, planDetails, numNodes) ==
    [InstanceId |-> Get(params, "name"),
     ClusterId |-> ClusterId(params),
     NumNodes |-> ToInt32(numNodes),
     StorageType |-> StorageTypes(Get(planDetails, "storage_type")),
     Zone |-> Zone(params),
     DisplayName |-> DisplayName(params)]

\* lines 122-136
NewServiceInstanceDetails(params, toolchain) ==
    [Name |-> Get(params, "name"),
     Url |-> EmptyString,
     Location |-> EmptyString,
     OtherDetails |-> MarshalInstanceInformation(Get(params, "name"), toolchain)]

\* lines 59-63: the error and the parameter map
DecodeParams(raw) ==
    IF IsEmptyPayload(raw) THEN [err |-> FALSE, mp |-> EmptyMap] ELSE Unmarshal(raw)

\* lines 56-115.  gen is the name the generator would hand out and clientOk
\* whether NewInstanceAdminClient succeeds.  outcome is "return" (with err),
\* "panic" (the assignment of line 67 to a nil map) or "create" (the create
\* request ic is ready for line 117).
Resolve(raw, features, gen, clientOk) ==
    LET u == DecodeParams(raw)
        base == [outcome |-> "return", err |-> "nil", params |-> u.mp,
                 planDetails |-> NilMap, parsed |-> ZeroInt, ic |-> NoConf]
    IN  IF u.err THEN [base EXCEPT !.err = "ErrUnmarshalParams"]
        ELSE IF ~Has(u.mp, "name") /\ u.mp.isNil THEN [base EXCEPT !.outcome = "panic"]
        ELSE
          LET params == IF Has(u.mp, "name") THEN u.mp ELSE Put(u.mp, "name", gen)
              f == Unmarshal(features)
              n == Atoi(Get(f.mp, "num_nodes"))
              got == [base EXCEPT !.params = params]
          IN  IF f.err THEN [got EXCEPT !.err = "ErrUnmarshalFeatures"]
              ELSE IF ~clientOk
                   THEN [got EXCEPT !.err = "ErrCreateClient", !.planDetails = f.mp]
              ELSE IF n.err
                   THEN [got EXCEPT !.err = "ErrConvertNumNodes", !.planDetails = f.mp]
              ELSE [got EXCEPT !.outcome = "create",
                               !.planDetails = f.mp,
                               !.parsed = n.val,
                               !.ic = InstanceConf(params, f.mp, n.val)]

(***************************************************************************)
(* State.                                                                  *)
(*   calls     per request-handling goroutine, the call it runs: the       *)
(*             operation, its position, its arguments, its locals, the     *)
(*             provider calls it has issued and what it returned           *)
(*   db        the persistence table of ServiceInstanceDetails rows        *)
(*   provider  the provider's instances, each with the instance id of the  *)
(*             Provision call that created it                              *)
(*   started   the number of calls started                                 *)
(***************************************************************************)
VARIABLES calls, db, provider, started

vars == <<calls, db, provider, started>>

NoPayload == Bare("empty")

IdleCall ==
    [op |-> "none", pc |-> "idle", instanceID |-> EmptyString,
     raw |-> NoPayload, features |-> NoPayload,
     params |-> NilMap, planDetails |-> NilMap, parsed |-> ZeroInt, ic |-> NoConf,
     created |-> << >>,
     recordAtCall |-> FALSE, lookups |-> 0, found |-> FALSE,
     instance |-> [ID |-> EmptyString, details |-> EmptyDetails],
     deleted |-> << >>,
     err |-> "nil", details |-> EmptyDetails]

\* db_service.DbConnection.Where("ID = ?", id)
Rows(id) == {r \in db : r.ID = id}

\* the provider's instances of the given name
Instances(name) == {i \in provider : i.name = name}

Init ==
    /\ calls = [p \in Slots |-> IdleCall]
    /\ db = {}
    /\ provider = {}
    /\ started = 0

AllIdle == \A p \in Slots : calls[p].pc = "idle"

\* the framework hands a new call to the first free goroutine
FirstIdle(p) ==
    /\ calls[p].pc = "idle"
    /\ \A q \in Slots : q < p => calls[q].pc # "idle"

\* Provision, lines 55-115: everything before the create call
ProvisionBegin(p, id, raw, features) ==
    /\ FirstIdle(p)
    /\ \E gen \in GeneratedNames, clientOk \in BOOLEAN :
         LET r == Resolve(raw, features, gen, clientOk)
         IN  calls' = [calls EXCEPT ![p] =
                 [IdleCall EXCEPT
                     !.op = "Provision",
                     !.pc = CASE r.outcome = "create" -> "create"
                              [] r.outcome = "panic" -> "panicked"
                              [] OTHER -> "returned",
                     !.instanceID = id,
                     !.raw = raw,
                     !.features = features,
                     !.params = r.params,
                     !.planDetails = r.planDetails,
                     !.parsed = r.parsed,
                     !.ic = r.ic,
                     !.err = r.err]]
    /\ started' = started + 1
    /\ UNCHANGED <<db, provider>>

\* Provision, lines 117-138: the create call and the record handed back.
\* The provider refuses a name it already holds; any call may also fail in
\* transport.  The broker that serves the call is built with either
\* toolchain (the persisted records outlive a build of the broker).
ProvisionCreate(p) ==
    /\ calls[p].op = "Provision"
    /\ calls[p].pc = "create"
    /\ \E transportOk \in BOOLEAN, toolchain \in Toolchains :
         LET c == calls[p]
             ok == transportOk /\ Instances(c.ic.InstanceId) = {}
         IN  /\ provider' = IF ok
                            THEN provider \cup {[name |-> c.ic.InstanceId, owner |-> c.instanceID]}
                            ELSE provider
             /\ calls' = [calls EXCEPT ![p] =
                    [c EXCEPT
                        !.pc = "returned",
                        !.created = Append(c.created, [ic |-> c.ic, ok |-> ok]),
                        !.err = IF ok THEN "nil" ELSE "ErrCreateInstance",
                        !.details = IF ok THEN NewServiceInstanceDetails(c.params, toolchain)
                                    ELSE EmptyDetails]]
    /\ UNCHANGED <<db, started>>

\* a delete by the caller-supplied instance id
DeleteArgumentByCallerId(instanceID, instance) == instanceID

\* the argument of the delete call of line 155
DeleteArgument(instanceID, instance) == instance.details.Name

\* Deprovision, lines 142-153: the client and the persistence lookup
DeprovisionBegin(p, id) ==
    /\ FirstIdle(p)
    /\ \E clientOk \in BOOLEAN :
         LET base == [IdleCall EXCEPT !.op = "Deprovision", !.instanceID = id,
                                      !.recordAtCall = Rows(id) # {}]
         IN  IF ~clientOk
             THEN calls' = [calls EXCEPT ![p] =
                      [base EXCEPT !.pc = "returned", !.err = "ErrCreateClient"]]
             ELSE IF Rows(id) = {}
             THEN calls' = [calls EXCEPT ![p] =
                      [base EXCEPT !.pc = "returned", !.lookups = 1,
                                   !.err = "ErrInstanceDoesNotExist"]]
             ELSE \E row \in Rows(id) :
                    calls' = [calls EXCEPT ![p] =
                      [base EXCEPT !.pc = "delete", !.lookups = 1,
                                   !.found = TRUE, !.instance = row]]
    /\ started' = started + 1
    /\ UNCHANGED <<db, provider>>

\* Deprovision, lines 155-159: the delete call.  The provider fails for a
\* name it does not hold; any call may also fail in transport.
DeprovisionDelete(p) ==
    /\ calls[p].op = "Deprovision"
    /\ calls[p].pc = "delete"
    /\ \E transportOk \in BOOLEAN :
         LET c == calls[p]
             name == DeleteArgument(c.instanceID, c.instance)
             hit == Instances(name)
             ok == transportOk /\ hit # {}
             owner == IF ok THEN (CHOOSE i \in hit : TRUE).owner ELSE EmptyString
         IN  /\ provider' = IF ok THEN provider \ hit ELSE provider
             /\ calls' = [calls EXCEPT ![p] =
                    [c EXCEPT
                        !.pc = "returned",
                        !.deleted = Append(c.deleted,
                                           [name |-> name, ok |-> ok, owner |-> owner]),
                        !.err = IF ok THEN "nil" ELSE "ErrDeleteInstance"]]
    /\ UNCHANGED <<db, started>>

\* the caller of the broker: it stores the record a successful Provision
\* handed back under the instance id, removes the record after a successful
\* Deprovision, and the goroutine is free again
FrameworkFinish(p) ==
    /\ calls[p].pc \in {"returned", "panicked"}
    /\ LET c == calls[p]
       IN  db' = IF c.pc = "returned" /\ c.err = "nil" /\ c.op = "Provision"
                 THEN (db \ Rows(c.instanceID))
                      \cup {[ID |-> c.instanceID, details |-> c.details]}
                 ELSE IF c.pc = "returned" /\ c.err = "nil" /\ c.op = "Deprovision"
                 THEN db \ Rows(c.instanceID)
                 ELSE db
    /\ calls' = [calls EXCEPT ![p] = IdleCall]
    /\ UNCHANGED <<provider, started>>

\* another actor removes the persisted record of an instance id
RemoveRecord(id) ==
    /\ Rows(id) # {}
    /\ db' = db \ Rows(id)
    /\ UNCHANGED <<calls, provider, started>>

(***************************************************************************)
(* Inputs.                                                                 *)
(***************************************************************************)
MyTable == <<"m", "y", "t", "a", "b", "l", "e">>
Name20 == Rep("a", ClusterNameLimit)
Name21 == Name20 \o <<"z">>
QuoteName == <<"a", "\"", "\\", "<", "b">>
ControlName == <<"a", "\t", "b", "\n", "\r", "\f", Backspace, "1F">>
\* U+00E9, U+2028, an invalid byte, U+2029, U+00E8, U+2000, U+FFFF, U+1F600,
\* a surrogate half, an overlong form and a sequence cut short
UnicodeName == EAcute \o LineSeparator \o <<"FF">> \o ParagraphSeparator
               \o EGrave \o <<"E2", "80", "80">> \o <<"EF", "BF", "BF">>
               \o <<"F0", "9F", "98", "80">> \o <<"ED", "A0", "80">>
               \o <<"C0", "80">> \o <<"E2", "80">>
UserCluster == <<"c", "1">>
UserZone == <<"e", "u">>
UserDisplay == <<"M", "y">>

RawParametersInputs ==
    { Bare("empty"), Bare("malformed"), Bare("null"), Bare("nonobject"),
      Bare("object"),
      Object([zone |-> UserZone], {}, {"name"}),
      Object([zone |-> UserZone], {"name"}, {}),
      Object([name |-> MyTable], {"cluster_id", "zone"}, {}),
      Payload("object", [name |-> ControlName]),
      Payload("object", [name |-> UnicodeName]),
      Payload("object", [name |-> MyTable]),
      Payload("object", [name |-> EmptyString]),
      Payload("object", [name |-> Name20]),
      Payload("object", [name |-> Name21]),
      Payload("object", [name |-> QuoteName]),
      Payload("object", [name |-> Name21, cluster_id |-> UserCluster]),
      Payload("object", [name |-> MyTable, cluster_id |-> EmptyString]),
      Payload("object", [cluster_id |-> UserCluster]),
      Payload("object", [name |-> MyTable, zone |-> UserZone]),
      Payload("object", [name |-> MyTable, display_name |-> UserDisplay]),
      Payload("object", [zone |-> UserZone, display_name |-> UserDisplay]) }

Features(numNodes, storageType) ==
    Payload("object", [num_nodes |-> numNodes, storage_type |-> storageType])

FeaturesInputs ==
    { Bare("empty"), Bare("malformed"), Bare("null"), Bare("nonobject"),
      Object([storage_type |-> SsdKey], {}, {"num_nodes"}),
      Object([storage_type |-> SsdKey], {"num_nodes"}, {}),
      Object([num_nodes |-> <<"4">>], {"storage_type"}, {}),
      Features(<<"3">>, SsdKey),
      Features(<<"4">>, HddKey),
      Features(<<"4">>, <<"X", "Y", "Z">>),
      Features(<<"4">>, <<"s", "s", "d">>),
      Payload("object", [num_nodes |-> <<"4">>]),
      Payload("object", [storage_type |-> SsdKey]),
      Features(<<"a", "b", "c">>, SsdKey),
      Features(EmptyString, SsdKey),
      Features(<<"4", " ">>, SsdKey),
      Features(<<"-", "1">>, SsdKey),
      Features(<<"+", "5">>, HddKey),
      Features(<<"4", "2", "9", "4", "9", "6", "7", "3", "0", "0">>, SsdKey),
      Features(<<"2", "1", "4", "7", "4", "8", "3", "6", "4", "7">>, SsdKey),
      Features(<<"2", "1", "4", "7", "4", "8", "3", "6", "4", "8">>, HddKey),
      Features(<<"-", "2", "1", "4", "7", "4", "8", "3", "6", "4", "8">>, HddKey),
      Features(<<"9", "2", "2", "3", "3", "7", "2", "0", "3", "6", "8", "5", "4",
                 "7", "7", "5", "8", "0", "8">>, SsdKey) }

ConcRawParametersInputs ==
    { Payload("object", [name |-> MyTable]), Payload("object", [name |-> Name20]) }

ConcFeaturesInputs == { Features(<<"3">>, SsdKey) }

(***************************************************************************)
(* Spec: the framework serves one call at a time, over the wide inputs.    *)
(***************************************************************************)
Provision(p) ==
    /\ AllIdle
    /\ started < MaxCalls
    /\ \E id \in InstanceIds, raw \in RawParametersInputs, features \in FeaturesInputs :
         ProvisionBegin(p, id, raw, features)

Deprovision(p) ==
    /\ AllIdle
    /\ started < MaxCalls
    /\ \E id \in InstanceIds : DeprovisionBegin(p, id)

Next ==
    \E p \in Slots :
        \/ Provision(p)
        \/ ProvisionCreate(p)
        \/ Deprovision(p)
        \/ DeprovisionDelete(p)
        \/ FrameworkFinish(p)

Spec == Init /\ [][Next]_vars

(***************************************************************************)
(* SpecConc: the framework serves calls side by side, one per goroutine,   *)
(* and the persisted records may be removed at any time.                   *)
(***************************************************************************)
ProvisionConc(p) ==
    /\ started < MaxConcCalls
    /\ \E id \in InstanceIds, raw \in ConcRawParametersInputs,
          features \in ConcFeaturesInputs :
         ProvisionBegin(p, id, raw, features)

DeprovisionConc(p) ==
    /\ started < MaxConcCalls
    /\ \E id \in InstanceIds : DeprovisionBegin(p, id)

NextConc ==
    \/ \E p \in Slots :
        \/ ProvisionConc(p)
        \/ ProvisionCreate(p)
        \/ DeprovisionConc(p)
        \/ DeprovisionDelete(p)
        \/ FrameworkFinish(p)
    \/ \E id \in InstanceIds : RemoveRecord(id)

SpecConc == Init /\ [][NextConc]_vars

(***************************************************************************)
(* Properties.                                                             *)
(***************************************************************************)
ProvisionCalls == {p \in Slots : calls[p].op = "Provision"}
DeprovisionCalls == {p \in Slots : calls[p].op = "Deprovision"}

\* the create request of call p has been built (and perhaps issued)
HasConf(p) ==
    calls[p].op = "Provision" /\ (calls[p].pc = "create" \/ calls[p].created # << >>)

ReturnedOk(p) == calls[p].pc = "returned" /\ calls[p].err = "nil"

\* the raw parameters of the call are a JSON object holding key k with a
\* string or with null
RawHas(c, k) == c.raw.kind = "object" /\ k \in c.raw.keys \cup c.raw.nullKeys

\* the string the member k of the JSON object p decodes to
MemberString(p, k) ==
    IF p.kind = "object" /\ k \in p.keys THEN SanitizeString(p.val[k]) ELSE EmptyString

\* the names the resolution may settle on, read off the call's arguments
ResolvedNames(c) ==
    IF RawHas(c, "name") THEN {MemberString(c.raw, "name")} ELSE GeneratedNames

\* the payload does not decode into a map of strings
DoesNotDecode(p) ==
    \/ p.kind \in {"empty", "malformed", "nonobject"}
    \/ p.kind = "object" /\ p.badKeys # {}

\* the three ways the resolution fails, read off the call's arguments
ResolutionFails(c) ==
    \/ ~IsEmptyPayload(c.raw) /\ DoesNotDecode(c.raw)
    \/ DoesNotDecode(c.features)
    \/ c.features.kind = "null"
    \/ "num_nodes" \notin c.features.keys \cup c.features.nullKeys
    \/ Atoi(MemberString(c.features, "num_nodes")).err

\* the 64-bit value of a 32-bit integer
FromInt32(n) ==
    IF n >= 0 THEN [neg |-> FALSE, mag |-> <<n % LimbBase, n \div LimbBase, 0, 0>>]
    ELSE LET m == -(n + 1)
             l == (m % LimbBase) + 1
         IN  [neg |-> TRUE,
              mag |-> <<l % LimbBase, (m \div LimbBase) + (l \div LimbBase), 0, 0>>]

\* C1: a Deprovision call for an instance id without a persisted record
\* returns ErrInstanceDoesNotExist and issues no provider delete, whatever
\* the outcome of opening the administrative client.
C1_AbsentIdReturnsDoesNotExist ==
    \A p \in DeprovisionCalls :
        (calls[p].pc = "returned" /\ ~calls[p].recordAtCall)
            => /\ calls[p].err = "ErrInstanceDoesNotExist"
               /\ calls[p].deleted = << >>

\* C2: every provider delete a Deprovision call issues comes after that
\* call's successful lookup of its instance id, and its argument is the Name
\* of the record the lookup found.
C2_DeleteUsesPersistedName ==
    \A p \in Slots :
        \A i \in 1..Len(calls[p].deleted) :
            /\ calls[p].op = "Deprovision"
            /\ Len(calls[p].deleted) = 1
            /\ calls[p].lookups = 1
            /\ calls[p].found
            /\ calls[p].instance.ID = calls[p].instanceID
            /\ calls[p].deleted[i].name = calls[p].instance.details.Name

C2_Witness ==
    \E p \in DeprovisionCalls :
        /\ calls[p].pc = "returned"
        /\ Len(calls[p].deleted) = 1
        /\ calls[p].deleted[1].ok
        /\ calls[p].deleted[1].name = MyTable
        /\ calls[p].deleted[1].name # calls[p].instanceID

\* C3: a Provision call that returns without error has issued exactly one
\* create call, which succeeded, for the resolved name; the record it
\* returns has that Name, OtherDetails that decode to instance_id = that
\* name, and empty Url and Location.
C3_ProvisionResult ==
    \A p \in ProvisionCalls :
        ReturnedOk(p) =>
            \E n \in ResolvedNames(calls[p]) :
                /\ Len(calls[p].created) = 1
                /\ calls[p].created[1].ok
                /\ calls[p].created[1].ic.InstanceId = n
                /\ calls[p].details.Name = n
                /\ DecodeInstanceInformation(calls[p].details.OtherDetails)
                       = [ok |-> TRUE, instance_id |-> n]
                /\ calls[p].details.Url = EmptyString
                /\ calls[p].details.Location = EmptyString

C3_Witness ==
    \E p \in ProvisionCalls :
        /\ ReturnedOk(p)
        /\ calls[p].raw = Payload("object", [name |-> MyTable])
        /\ calls[p].features = Features(<<"3">>, SsdKey)
        /\ calls[p].created[1].ic =
               [InstanceId |-> MyTable, ClusterId |-> MyTable \o ClusterSuffix,
                NumNodes |-> 3, StorageType |-> SSD, Zone |-> DefaultZone,
                DisplayName |-> MyTable]
        /\ calls[p].details.Name = MyTable

\* the number of characters of s (a byte of invalid UTF-8 counts as one)
RECURSIVE RuneCount(_)
RuneCount(s) ==
    IF s = << >> THEN 0
    ELSE LET n == RuneSize(s)
         IN  1 + RuneCount(Drop(s, IF n = 0 THEN 1 ELSE n))

\* the first n characters of s
RECURSIVE FirstRunes(_, _)
FirstRunes(s, n) ==
    IF n = 0 \/ s = << >> THEN << >>
    ELSE LET k == IF RuneSize(s) = 0 THEN 1 ELSE RuneSize(s)
         IN  SubSeq(s, 1, k) \o FirstRunes(Drop(s, k), n - 1)

\* C4: the cluster id of the create request is the cluster_id parameter
\* whenever that key is present (the empty string included); otherwise it
\* is the first 20 characters of the resolved name followed by "-cluster"
\* for a name longer than 20 characters, and the name followed by
\* "-cluster" for a name of 20 characters or less.
C4_ClusterId ==
    \A p \in Slots :
        HasConf(p) =>
            LET c == calls[p]
                name == c.ic.InstanceId
            IN  /\ name \in ResolvedNames(c)
                /\ c.ic.ClusterId =
                       IF RawHas(c, "cluster_id") THEN MemberString(c.raw, "cluster_id")
                       ELSE IF RuneCount(name) > 20
                            THEN FirstRunes(name, 20) \o ClusterSuffix
                       ELSE name \o ClusterSuffix

\* C5: the resolved name is never empty: neither the instance id of a
\* create request nor the Name of a returned record is the empty string.
C5_NameNonEmpty ==
    \A p \in ProvisionCalls :
        /\ HasConf(p) => calls[p].ic.InstanceId # EmptyString
        /\ ReturnedOk(p) => calls[p].details.Name # EmptyString

\* C6: a Provision call whose resolution fails (raw parameters that do not
\* decode, plan features that do not decode, num_nodes missing or no
\* integer) returns an error with the empty record and issues no create
\* call.
C6_RejectedCreatesNothing ==
    \A p \in ProvisionCalls :
        ResolutionFails(calls[p]) =>
            /\ calls[p].pc = "returned"
            /\ calls[p].err # "nil"
            /\ calls[p].details = EmptyDetails
            /\ calls[p].created = << >>

\* C7: the node count of the create request equals the integer that
\* num_nodes parsed to.
C7_NodeCountPreserved ==
    \A p \in Slots :
        HasConf(p) => FromInt32(calls[p].ic.NumNodes) = calls[p].parsed

\* C8: the storage type of the create request is SSD for storage_type "SSD"
\* and HDD for "HDD"; for any other value or a missing key it is the zero
\* value of the table, and the call does not fail on that account: a call
\* that returns an error before the create call has a failed resolution or
\* a failed client.
C8_StorageType ==
    \A p \in ProvisionCalls :
        LET c == calls[p]
            key == MemberString(c.features, "storage_type")
        IN  /\ HasConf(p) =>
                   c.ic.StorageType = CASE key = SsdKey -> SSD
                                        [] key = HddKey -> HDD
                                        [] OTHER -> 0
            /\ (c.pc = "returned" /\ c.created = << >>) =>
                   (c.err = "ErrCreateClient" \/ ResolutionFails(c))

C8_Witness ==
    \E p \in ProvisionCalls :
        /\ ReturnedOk(p)
        /\ calls[p].features = Features(<<"4">>, <<"X", "Y", "Z">>)
        /\ calls[p].created[1].ic.StorageType = 0

\* C9: a Deprovision call never destroys a provider instance that was
\* created for another instance id: a delete that succeeds removes an
\* instance created by a Provision call for the same instance id.
C9_NeverDestroysOthers ==
    \A p \in DeprovisionCalls :
        \A i \in 1..Len(calls[p].deleted) :
            calls[p].deleted[i].ok => calls[p].deleted[i].owner = calls[p].instanceID

\* C10: Provision is total: a call never aborts without returning.
C10_ProvisionTotal ==
    \A p \in Slots : calls[p].pc # "panicked"

=============================================================================
